---- MODULE Spec2Model ----
(***************************************************************************)
(* AutoTrader: the trading engine (engine.py), the signal rules of the     *)
(* strategy (strategy.py) and the commands of the control surface          *)
(* (tele.py).                                                              *)
(*                                                                         *)
(* Python floats are IEEE binary64 values: a sign and a 53-bit mantissa    *)
(* with its exponent, every operation rounded to nearest, ties to even.    *)
(* Prices and closes are whole numbers, which floats hold exactly; the     *)
(* indicator columns hold floats or NaN.                                   *)
(* Optional values (None or a value) are sequences of length 0 or 1.       *)
(* The loop thread and the commands interleave at every write of the       *)
(* engine's fields: a tick is a sequence of steps, not one step.           *)
(***************************************************************************)
EXTENDS Integers, Sequences, FiniteSets, TLC

\* ---------------------------------------------------------------- bounds
MaxTicks == 3        \* executions of execute_order in one behaviour
MaxThreads == 2      \* threads the control surface may create in one behaviour
MaxQueryTicks == 2              \* the same, in behaviours with status queries
MaxControlTicks == 2 \* the same, in behaviours with stop requests

MaxVolumes == 12                \* bars in a volume history given to hvi
MaxTrades == 2                  \* rows of the closed_trades table given to show_trade_stats
MaxBars == 101                  \* bars in a price history given to calc_indicators

\* ------------------------------------------------------- program constants
InitialBalance == 10000
RiskPercentage == 90
HviThreshold == 100
ShortLookback == 20
HviPeriod == 10
LongLookback == 100
SupertrendLength == 7

\* ----------------------------------------------------------- input domains
NaN == <<>>                     \* float('nan') in a column of floats
Closes == {9}                   \* latest['close'] values
PriceNone == 0                  \* get_current_price returned None
PriceRaise == -1                \* get_current_price raised
Prices == {9, 10, 12}           \* prices get_current_price may return
PriceOutcomes == Prices \cup {PriceNone, PriceRaise}
Handlers == {1}                 \* updates in process: the Application handles one at a time
ExchangeBalances == {100}       \* USDT totals the exchange may report (live mode)

\* ------------------------------------------------------ float arithmetic
Abs(x) == IF x < 0 THEN -x ELSE x

\* ------------------------------------------------- binary64 floating point
\* A Python float is an IEEE-754 double. Natural numbers of any size are
\* sequences of limbs in base LimbBase, least significant first, without leading
\* zero limbs; a non-negative double is [m, e], of value m * 2^e, with m = <<>>
\* (zero) or m of exactly MantissaBits bits.
LimbBase == 32768
LimbBits == 15
MantissaBits == 53

RECURSIVE Pow2(_)
Pow2(n) == IF n = 0 THEN 1 ELSE 2 * Pow2(n - 1)

RECURSIVE BigOf(_)
BigOf(n) == IF n = 0 THEN <<>> ELSE <<n % LimbBase>> \o BigOf(n \div LimbBase)

RECURSIVE Strip(_)
Strip(a) == IF a # <<>> /\ a[Len(a)] = 0 THEN Strip(SubSeq(a, 1, Len(a) - 1)) ELSE a

RECURSIVE MulCarry(_, _, _)
MulCarry(a, k, carry) ==
    IF a = <<>> THEN BigOf(carry)
    ELSE LET v == Head(a) * k + carry
         IN  <<v % LimbBase>> \o MulCarry(Tail(a), k, v \div LimbBase)

\* a * k for 0 <= k <= LimbBase
BigMulSmall(a, k) == Strip(MulCarry(a, k, 0))

\* quotient and remainder of a by k, 0 < k <= LimbBase, from the top limb down
RECURSIVE DivFrom(_, _, _, _)
DivFrom(a, k, i, rem) ==
    IF i = 0 THEN [q |-> <<>>, r |-> rem]
    ELSE LET cur == rem * LimbBase + a[i]
             rest == DivFrom(a, k, i - 1, cur % k)
         IN  [q |-> Append(rest.q, cur \div k), r |-> rest.r]

BigDivSmall(a, k) ==
    LET d == DivFrom(a, k, Len(a), 0) IN [q |-> Strip(d.q), r |-> d.r]

RECURSIVE BigShiftLeft(_, _)
BigShiftLeft(a, s) ==
    IF a = <<>> \/ s = 0 THEN a
    ELSE IF s >= LimbBits THEN <<0>> \o BigShiftLeft(a, s - LimbBits)
    ELSE BigMulSmall(a, Pow2(s))

RECURSIVE SmallBitLen(_)
SmallBitLen(n) == IF n = 0 THEN 0 ELSE 1 + SmallBitLen(n \div 2)

BitLen(a) == IF a = <<>> THEN 0 ELSE LimbBits * (Len(a) - 1) + SmallBitLen(a[Len(a)])

\* -1, 0 or 1 as a is below, equal to or above b
RECURSIVE CmpFrom(_, _, _)
CmpFrom(a, b, i) ==
    IF i = 0 THEN 0
    ELSE IF a[i] < b[i] THEN -1
    ELSE IF a[i] > b[i] THEN 1
    ELSE CmpFrom(a, b, i - 1)

BigCmp(a, b) ==
    IF Len(a) < Len(b) THEN -1
    ELSE IF Len(a) > Len(b) THEN 1
    ELSE CmpFrom(a, b, Len(a))

RECURSIVE AddCarry(_, _, _)
AddCarry(a, b, carry) ==
    IF a = <<>> /\ b = <<>> THEN BigOf(carry)
    ELSE LET x == IF a = <<>> THEN 0 ELSE Head(a)
             y == IF b = <<>> THEN 0 ELSE Head(b)
             v == x + y + carry
         IN  <<v % LimbBase>> \o AddCarry(IF a = <<>> THEN a ELSE Tail(a),
                                          IF b = <<>> THEN b ELSE Tail(b),
                                          v \div LimbBase)

BigAdd(a, b) == AddCarry(a, b, 0)

\* a - b for a >= b
RECURSIVE SubBorrow(_, _, _)
SubBorrow(a, b, borrow) ==
    IF a = <<>> THEN <<>>
    ELSE LET y == IF b = <<>> THEN 0 ELSE Head(b)
             v == Head(a) - y - borrow
         IN  <<IF v < 0 THEN v + LimbBase ELSE v>>
                \o SubBorrow(Tail(a), IF b = <<>> THEN b ELSE Tail(b),
                             IF v < 0 THEN 1 ELSE 0)

BigSub(a, b) == Strip(SubBorrow(a, b, 0))

BigDist(a, b) == IF BigCmp(a, b) >= 0 THEN BigSub(a, b) ELSE BigSub(b, a)

\* The double nearest to m * 2^e (plus, when sticky, a fraction below one unit
\* of m's last bit), ties to even. With sticky, m has more than MantissaBits bits.
RoundDouble(m, e, sticky) ==
    LET len == BitLen(m)
        s == len - MantissaBits
        cut == BigDivSmall(m, Pow2(s))
        half == Pow2(s - 1)
        odd == cut.q[1] % 2 = 1
        up == cut.r > half \/ (cut.r = half /\ (sticky \/ odd))
        q == IF up THEN BigAdd(cut.q, <<1>>) ELSE cut.q
    IN  IF m = <<>> THEN [m |-> <<>>, e |-> 0]
        ELSE IF s <= 0 THEN [m |-> BigShiftLeft(m, -s), e |-> e + s]
        ELSE IF BitLen(q) > MantissaBits
             THEN [m |-> BigDivSmall(q, 2).q, e |-> e + s + 1]
             ELSE [m |-> q, e |-> e + s]

\* float(n) for an integer 0 <= n < 2^31
DoubleOf(n) == RoundDouble(BigOf(n), 0, FALSE)

\* x * k in binary64, for an integer 0 <= k < LimbBase
DoubleMulInt(x, k) == RoundDouble(BigMulSmall(x.m, k), x.e, FALSE)

\* x / k in binary64, for an integer 0 < k < LimbBase
DoubleDivInt(x, k) ==
    LET t == SmallBitLen(k) + 1
        d == BigDivSmall(BigShiftLeft(x.m, t), k)
    IN  RoundDouble(d.q, x.e - t, d.r # 0)

\* one more bit of a quotient by d: acc.q the bits so far, acc.r < d the remainder
DivStep(acc, d) ==
    LET twice == BigMulSmall(acc.r, 2)
    IN  IF BigCmp(twice, d) >= 0
        THEN [q |-> BigAdd(BigMulSmall(acc.q, 2), <<1>>), r |-> BigSub(twice, d)]
        ELSE [q |-> BigMulSmall(acc.q, 2), r |-> twice]

\* n more bits of a quotient by d: shift and subtract
RECURSIVE DivBits(_, _, _)
DivBits(acc, d, n) ==
    IF n = 0 \/ acc.r = <<>> THEN [q |-> BigShiftLeft(acc.q, n), r |-> acc.r]
    ELSE DivBits(DivStep(acc, d), d, n - 1)

\* the zero limbs at the low end of a
RECURSIVE LowZeroLimbs(_)
LowZeroLimbs(a) == IF a = <<>> \/ Head(a) # 0 THEN 0 ELSE 1 + LowZeroLimbs(Tail(a))

\* the factors two of n > 0
RECURSIVE LowZeroBits(_)
LowZeroBits(n) == IF n % 2 = 1 THEN 0 ELSE 1 + LowZeroBits(n \div 2)

\* A mantissa m > 0 as odd * 2^shift when that is easily seen: its limbs above
\* the low zero limbs are one or two. odd is 0 otherwise.
OddForm(m) ==
    LET z == LowZeroLimbs(m)
        v == IF Len(m) - z = 1 THEN m[z + 1] ELSE m[z + 1] + LimbBase * m[z + 2]
        s == LowZeroBits(v)
    IN  IF Len(m) - z > 2 THEN [odd |-> 0, shift |-> 0]
        ELSE [odd |-> v \div Pow2(s), shift |-> s + LimbBits * z]

\* x / y in binary64 for a divisor y > 0: the quotient of the two 53-bit
\* mantissas to 54 or 55 bits and the remainder as the sticky bit; a divisor
\* odd * 2^shift with odd below LimbBase is divided by in one pass
DoubleDiv(x, y) ==
    LET first == IF BigCmp(x.m, y.m) >= 0 THEN [q |-> <<1>>, r |-> BigSub(x.m, y.m)]
                                          ELSE [q |-> <<>>, r |-> x.m]
        d == DivBits(first, y.m, MantissaBits + 1)
        f == OddForm(y.m)
    IN  IF x.m = <<>> THEN x
        ELSE IF f.odd # 0 /\ f.odd < LimbBase
        THEN [DoubleDivInt(x, f.odd) EXCEPT !.e = @ - f.shift - y.e]
        ELSE RoundDouble(d.q, x.e - y.e - (MantissaBits + 1), d.r # <<>>)

\* x <= y for doubles
DoubleLeq(x, y) ==
    IF x.m = <<>> THEN TRUE
    ELSE IF y.m = <<>> THEN FALSE
    ELSE IF x.e # y.e THEN x.e < y.e
    ELSE BigCmp(x.m, y.m) <= 0

\* |x - n/d| <= (n/d) * 2^-k for a double x and integers 0 <= n < 2^31, 0 < d < LimbBase
DoubleWithin(x, n, d, k) ==
    LET X == BigShiftLeft(BigMulSmall(x.m, d), IF x.e > 0 THEN x.e ELSE 0)
        Y == BigShiftLeft(BigOf(n), IF x.e < 0 THEN -x.e ELSE 0)
    IN  BigCmp(BigShiftLeft(BigDist(X, Y), k), Y) <= 0


\* a * b
RECURSIVE BigMul(_, _)
BigMul(a, b) ==
    IF a = <<>> \/ b = <<>> THEN <<>>
    ELSE IF Head(a) = 0 THEN <<0>> \o BigMul(Tail(a), b)
    ELSE IF Head(b) = 0 THEN <<0>> \o BigMul(a, Tail(b))
    ELSE BigAdd(BigMulSmall(a, Head(b)), BigShiftLeft(BigMul(a, Tail(b)), LimbBits))

\* RoundDouble for a mantissa of any length: whole limbs below the rounding
\* position are dropped into the sticky bit first
RECURSIVE RoundLong(_, _, _)
RoundLong(m, e, sticky) ==
    IF BitLen(m) - MantissaBits > LimbBits
    THEN RoundLong(Tail(m), e + LimbBits, sticky \/ Head(m) # 0)
    ELSE RoundDouble(m, e, sticky)

\* x * y in binary64: the exact product of the mantissas, rounded
DoubleMul(x, y) == RoundLong(BigMul(x.m, y.m), x.e + y.e, FALSE)

\* x + y in binary64: the exact sum at the smaller exponent, rounded
DoubleAdd(x, y) ==
    LET e == IF x.e < y.e THEN x.e ELSE y.e
    IN  IF x.m = <<>> THEN y
        ELSE IF y.m = <<>> THEN x
        ELSE RoundLong(BigAdd(BigShiftLeft(x.m, x.e - e), BigShiftLeft(y.m, y.e - e)),
                       e, FALSE)

\* x - y in binary64 for x >= y
DoubleSub(x, y) ==
    LET e == IF x.e < y.e THEN x.e ELSE y.e
    IN  IF y.m = <<>> THEN x
        ELSE RoundLong(BigSub(BigShiftLeft(x.m, x.e - e), BigShiftLeft(y.m, y.e - e)),
                       e, FALSE)

\* A Python float: a sign and a double; zero carries no sign (0.0 == -0.0)
Float(neg, x) == [neg |-> neg /\ x.m # <<>>, m |-> x.m, e |-> x.e]

Magnitude(x) == [m |-> x.m, e |-> x.e]

\* float(i) for an integer |i| < 2^31
FloatOf(i) == Float(i < 0, DoubleOf(Abs(i)))

Zero == FloatOf(0)

FloatNeg(x) == Float(~x.neg, Magnitude(x))

\* x * y
FloatMul(x, y) == Float(x.neg # y.neg, DoubleMul(Magnitude(x), Magnitude(y)))

\* x / y for y # 0 (Python raises ZeroDivisionError on y = 0)
FloatDiv(x, y) == Float(x.neg # y.neg, DoubleDiv(Magnitude(x), Magnitude(y)))

\* x <= y
FloatLeq(x, y) ==
    IF x.neg # y.neg THEN x.neg
    ELSE IF x.neg THEN DoubleLeq(Magnitude(y), Magnitude(x))
    ELSE DoubleLeq(Magnitude(x), Magnitude(y))

\* x >= y
FloatGeq(x, y) == FloatLeq(y, x)

\* x + y
FloatAdd(x, y) ==
    IF x.neg = y.neg THEN Float(x.neg, DoubleAdd(Magnitude(x), Magnitude(y)))
    ELSE IF DoubleLeq(Magnitude(y), Magnitude(x))
         THEN Float(x.neg, DoubleSub(Magnitude(x), Magnitude(y)))
         ELSE Float(y.neg, DoubleSub(Magnitude(y), Magnitude(x)))

\* x - y
FloatSub(x, y) == FloatAdd(x, FloatNeg(y))

\* ------------------------------------------------------------ strategy.py
\* An entry of a column of floats is <<>> (NaN) or <<double>>; Num(n) is the
\* entry holding the whole number n.
Num(n) == <<DoubleOf(n)>>

\* pandas comparisons: any comparison with NaN is False
Gt(a, b) == a # NaN /\ b # NaN /\ ~DoubleLeq(Head(a), Head(b))
Lt(a, b) == a # NaN /\ b # NaN /\ ~DoubleLeq(Head(b), Head(a))

IndicatorValues == {NaN, Num(8), Num(10)} \* sma20, sma100, ST_long, ST_short values
HviValues == {NaN, Num(100), Num(101)}    \* hvi values
SignalValues == {NaN, Num(8), Num(9), Num(10)}   \* indicator values below, at and above the close
Rows == [close : {Num(c) : c \in Closes}, sma20 : IndicatorValues, sma100 : IndicatorValues,
         hvi : HviValues, ST_long : IndicatorValues, ST_short : IndicatorValues]

enter_long(r) ==
    IF Gt(r.close, r.sma20) /\ Gt(r.close, r.sma100)
       /\ Gt(r.hvi, Num(HviThreshold)) /\ Gt(r.close, r.ST_long) THEN 1 ELSE 0

\* enter_short as it would be without the two moving-average tests
enter_short_without_sma(r) ==
    IF Gt(r.hvi, Num(HviThreshold)) /\ Lt(r.close, r.ST_short) THEN 1 ELSE 0

enter_short(r) ==
    IF Lt(r.close, r.sma20) /\ Lt(r.close, r.sma100)
       /\ Gt(r.hvi, Num(HviThreshold)) /\ Lt(r.close, r.ST_short) THEN 1 ELSE 0

exit_long(r) == IF Lt(r.close, r.ST_long) THEN 1 ELSE 0

\* exit_short as it would be with >= for >
exit_short_nonstrict(r) ==
    IF r.close # NaN /\ r.ST_short # NaN /\ DoubleLeq(Head(r.ST_short), Head(r.close))
    THEN 1 ELSE 0

exit_short(r) == IF Gt(r.close, r.ST_short) THEN 1 ELSE 0

\* the part of df.iloc[-1] that execute_order reads
LatestOf(r) == [close |-> r.close,
                enter_long |-> enter_long(r), enter_short |-> enter_short(r),
                exit_long |-> exit_long(r), exit_short |-> exit_short(r)]

LatestRows == {LatestOf(r) : r \in Rows}

\* ------------------------------------------------------------ hvi (strategy.py)
\* A column of floats is a sequence whose entries are <<>> (NaN) or <<double>>.
\* DoubleInf stands for float('inf'): it is above every finite double.
DoubleInf == [m |-> <<1>>, e |-> 100000]

\* the volume c / 100 as the price table stores it, c a number of hundredths
VolumeOf(c) == DoubleDivInt(DoubleOf(c), 100)

RECURSIVE MaxDouble(_, _, _)
MaxDouble(col, from, to) ==
    IF from = to THEN col[from]
    ELSE LET rest == MaxDouble(col, from + 1, to)
         IN  IF DoubleLeq(rest, col[from]) THEN col[from] ELSE rest

\* Series.rolling(window=period).max(): NaN until period rows are in the window
rolling_max(volumes, period) ==
    [i \in 1..Len(volumes) |->
        IF i < period THEN <<>> ELSE <<MaxDouble(volumes, i - period + 1, i)>>]

\* Series.shift(1)
shift(col) == [i \in 1..Len(col) |-> IF i = 1 THEN <<>> ELSE col[i - 1]]

\* volume * 100 / denominator, elementwise, with numpy's division by zero
HviQuotient(volume, denominator) ==
    IF denominator = <<>> THEN <<>>
    ELSE IF Head(denominator).m # <<>>
         THEN <<DoubleDiv(DoubleMulInt(volume, 100), Head(denominator))>>
    ELSE IF volume.m = <<>> THEN <<>> ELSE <<DoubleInf>>

\* hvi as it would be without the shift: the window includes the current row
hvi_unshifted(volumes, period) ==
    LET HV == rolling_max(volumes, period)
    IN  [i \in 1..Len(volumes) |-> HviQuotient(volumes[i], HV[i])]

\* hvi(dataframe, period): lines 10-12
hvi(volumes, period) ==
    LET HV == rolling_max(volumes, period)
        shifted == shift(HV)
    IN  [i \in 1..Len(volumes) |-> HviQuotient(volumes[i], shifted[i])]

\* a history of n volumes, in hundredths: v on the last row, peak on row at,
\* low on the other rows
VolumeHistory(n, at, peak, low, v) ==
    [i \in 1..n |-> IF i = n THEN v ELSE IF i = at THEN peak ELSE low]

\* ------------------------------------------------ calc_indicators (strategy.py)
BarCloses == {999, 1000, 2000}  \* closes of the last bar of a history

\* a history of n bars: the last bar closes at c2, the bars before it at c1
History(n, c1, c2) == [i \in 1..n |-> IF i = n THEN c2 ELSE c1]

RECURSIVE SumCloses(_, _, _)
SumCloses(closes, from, to) ==
    IF from > to THEN 0 ELSE closes[from] + SumCloses(closes, from + 1, to)

\* pta.sma(close, length): None (<<>>) on a series shorter than length, else
\* <<column>>, the column close.rolling(length).mean(): NaN on the rows that
\* have fewer than length closes behind them, the sum of the window divided by
\* length on the others (the sum of whole closes is exact)
sma(closes, length) ==
    IF Len(closes) < length THEN <<>>
    ELSE <<[i \in 1..Len(closes) |->
              IF i < length THEN NaN
              ELSE <<DoubleDivInt(DoubleOf(SumCloses(closes, i - length + 1, i)), length)>>]>>

\* the sma100 column as it would be with the short lookback in the test and in
\* the call
sma100_column_short(closes) ==
    IF Len(closes) >= ShortLookback THEN Head(sma(closes, ShortLookback))
    ELSE [i \in 1..Len(closes) |-> NaN]

\* lines 36-39: sma100 only if there are enough data points, NaN on every row otherwise
sma100_column(closes) ==
    IF Len(closes) >= LongLookback THEN Head(sma(closes, LongLookback))
    ELSE [i \in 1..Len(closes) |-> NaN]

\* calc_indicators, entry_signals and exit_signals over a history of closes; the
\* columns hvi, ST_long and ST_short hold the given values on every row.
\* raised names the function that raises TypeError, "" when none does:
\* calc_indicators on fewer than 7 rows (pta.supertrend returns None, which
\* line 46 subscripts), entry_signals on fewer than 20 (pta.sma returned None,
\* the sma20 column holds None and line 55 compares the close with it).
\* sma100 is the column as lines 36-39 set it, rows the rows of the result.
Enriched(closes, hv, stl, sts) ==
    LET sma20 == sma(closes, ShortLookback)
        sma100 == sma100_column(closes)
        Row(i) == [close |-> Num(closes[i]), sma20 |-> Head(sma20)[i], sma100 |-> sma100[i],
                   hvi |-> hv, ST_long |-> stl, ST_short |-> sts]
    IN  IF Len(closes) < SupertrendLength
        THEN [raised |-> "calc_indicators", sma100 |-> sma100, rows |-> <<>>]
        ELSE IF sma20 = <<>>
        THEN [raised |-> "entry_signals", sma100 |-> sma100, rows |-> <<>>]
        ELSE [raised |-> "", sma100 |-> sma100,
              rows |-> [i \in 1..Len(closes) |->
                           [sma20 |-> Head(sma20)[i], sma100 |-> sma100[i],
                            latest |-> LatestOf(Row(i))]]]

\* every combination of the six columns entry_signals and exit_signals read,
\* nulls included
SignalRows == [close : {Num(c) : c \in Closes} \cup {NaN}, sma20 : SignalValues, sma100 : SignalValues,
               hvi : HviValues, ST_long : SignalValues, ST_short : SignalValues]

\* -------------------------------------------------------------------- state
VARIABLES
    dry_run,            \* TradingEngine.dry_run
    is_running,         \* TradingEngine.is_running
    simulated_balance,  \* TradingEngine.simulated_balance
    simulated_orders,   \* TradingEngine.simulated_orders
    open_position,      \* TradingEngine.open_position: <<>> is None
    closed_trades,      \* rows of table closed_trades in app.db
    latest,             \* last row of RUNE_USDT_prices with its signals
    trading_thread,     \* TelegramBot.trading_thread: 0 is None, else a thread id
    lock,               \* TelegramBot.lock: 0 is free, else the handler holding it
    hpc,                \* position of the handler of each update in process
    tpc,                \* position of each thread running start_trading
    frame,              \* the local variables of execute_order in each thread
    reply,              \* last reply_text sent by a handler
    realized,           \* history: trades closed at engine.py:184-192, logged or not
    nticks,             \* history: number of execute_order calls that have returned
    afterStop,          \* history: ticks completed since stop_trading, -1 when none pending
    price_seen,         \* history: what get_current_price gave the tick, <<>> if not asked
    failures,           \* history: which collaborators failed in the tick
    call                \* a call of a function: its name, arguments and result

vars == <<dry_run, is_running, simulated_balance, simulated_orders, open_position,
          closed_trades, latest, trading_thread, lock, hpc, tpc, frame, reply,
          realized, nticks, afterStop, price_seen, failures, call>>

\* what the handlers of runbot and stopbot leave alone
engineVars == <<simulated_balance, simulated_orders, open_position, closed_trades,
                latest, realized, nticks, price_seen, failures, frame, call>>

\* what the loop thread leaves alone
botVars == <<dry_run, is_running, trading_thread, lock, hpc, reply, call>>

Threads == 1..MaxThreads

\* ------------------------------------------------------------- engine.py
\* engine.py:54, 184, 187, 289
Profit(order, current_price) ==
    IF order.side = "buy"
    THEN FloatMul(FloatSub(FloatOf(current_price), FloatOf(order.price)), order.amount)
    ELSE FloatMul(FloatSub(FloatOf(order.price), FloatOf(current_price)), order.amount)

\* the row INSERTed by log_closed_trade (its timestamp and symbol columns, which
\* nothing reads back, are left out, as are the order's timestamp and symbol)
ClosedTrade(order, current_price) ==
    [side |-> order.side, amount |-> order.amount,
     price |-> order.price, profit |-> Profit(order, current_price)]

\* get_balance: <<>> is None
get_balance(exbal) == IF dry_run THEN <<simulated_balance>> ELSE exbal

\* calc_order as it would be without the division of the percentage by 100
calc_order_no_percent(usdt_balance, current_price, risk_percentage) ==
    FloatDiv(FloatMul(usdt_balance, risk_percentage), current_price)

\* calc_order: risk_amount = usdt_balance * (risk_percentage / 100), then
\* order_size = risk_amount / current_price
calc_order(usdt_balance, current_price, risk_percentage) ==
    FloatDiv(FloatMul(usdt_balance, FloatDiv(risk_percentage, FloatOf(100))),
             current_price)

\* place_order returning None with the balance as it was (engine.py:133, 153, 169)
NotPlaced == [raised |-> FALSE, order |-> <<>>, balance |-> simulated_balance]

\* engine.py:136-143
SimulatedOrder(side, amount, po) ==
    [id |-> Len(simulated_orders) + 1, side |-> side, amount |-> amount, price |-> po]

\* the order that place_order goes on to append and return, with the balance
\* the branch above left
Placed(order, balance) == [raised |-> FALSE, order |-> <<order>>, balance |-> balance]

\* place_order as it would be with the funds test of line 148 left out
place_order_unchecked(side, amount, po, exok) ==
    LET cost == FloatMul(FloatOf(po), amount)
    IN  IF po = PriceRaise THEN [NotPlaced EXCEPT !.raised = TRUE]
        ELSE IF po = PriceNone THEN NotPlaced
        ELSE IF dry_run THEN
            IF side = "buy"
            THEN Placed(SimulatedOrder(side, amount, po), FloatSub(simulated_balance, cost))
            ELSE Placed(SimulatedOrder(side, amount, po), FloatAdd(simulated_balance, cost))
        ELSE IF exok
             THEN [NotPlaced EXCEPT !.order = <<[SimulatedOrder(side, amount, po) EXCEPT !.id = 0]>>]
             ELSE NotPlaced

\* place_order as it would be with the return of line 153 left out
place_order_fallthrough(side, amount, po, exok) ==
    LET cost == FloatMul(FloatOf(po), amount)
    IN  IF po = PriceRaise THEN [NotPlaced EXCEPT !.raised = TRUE]
        ELSE IF po = PriceNone THEN NotPlaced
        ELSE IF dry_run THEN
            IF side = "buy" THEN
                IF FloatGeq(simulated_balance, cost)
                THEN Placed(SimulatedOrder(side, amount, po), FloatSub(simulated_balance, cost))
                ELSE Placed(SimulatedOrder(side, amount, po), simulated_balance)
            ELSE Placed(SimulatedOrder(side, amount, po), FloatAdd(simulated_balance, cost))
        ELSE IF exok
             THEN [NotPlaced EXCEPT !.order = <<[SimulatedOrder(side, amount, po) EXCEPT !.id = 0]>>]
             ELSE NotPlaced

\* place_order as it would be if line 149 debited the amount instead of the cost
place_order_debits_amount(side, amount, po, exok) ==
    LET cost == FloatMul(FloatOf(po), amount)
    IN  IF po = PriceRaise THEN [NotPlaced EXCEPT !.raised = TRUE]
        ELSE IF po = PriceNone THEN NotPlaced
        ELSE IF dry_run THEN
            IF side = "buy" THEN
                IF FloatGeq(simulated_balance, cost)
                THEN Placed(SimulatedOrder(side, amount, po), FloatSub(simulated_balance, amount))
                ELSE NotPlaced
            ELSE Placed(SimulatedOrder(side, amount, po), FloatAdd(simulated_balance, cost))
        ELSE IF exok
             THEN [NotPlaced EXCEPT !.order = <<[SimulatedOrder(side, amount, po) EXCEPT !.id = 0]>>]
             ELSE NotPlaced

\* place_order as it would be if a rejected create_market_order still gave an order
place_order_ignores_rejection(side, amount, po, exok) ==
    LET cost == FloatMul(FloatOf(po), amount)
    IN  IF po = PriceRaise THEN [NotPlaced EXCEPT !.raised = TRUE]
        ELSE IF po = PriceNone THEN NotPlaced
        ELSE IF dry_run THEN
            IF side = "buy" THEN
                IF FloatGeq(simulated_balance, cost)
                THEN Placed(SimulatedOrder(side, amount, po), FloatSub(simulated_balance, cost))
                ELSE NotPlaced
            ELSE Placed(SimulatedOrder(side, amount, po), FloatAdd(simulated_balance, cost))
        ELSE [NotPlaced EXCEPT !.order = <<[SimulatedOrder(side, amount, po) EXCEPT !.id = 0]>>]

\* Outcome of place_order(side, amount) up to the balance update of lines
\* 149 and 157: po is what get_current_price gave, exok whether
\* create_market_order succeeded (live mode; the order the exchange returns is
\* taken to carry the side, the amount and the current price). order is the
\* order the call goes on to return, <<>> when it returns None or raises.
place_order(side, amount, po, exok) ==
    LET cost == FloatMul(FloatOf(po), amount)
    IN  IF po = PriceRaise THEN [NotPlaced EXCEPT !.raised = TRUE]
        ELSE IF po = PriceNone THEN NotPlaced
        ELSE IF dry_run THEN
            IF side = "buy" THEN
                IF FloatGeq(simulated_balance, cost)
                THEN Placed(SimulatedOrder(side, amount, po), FloatSub(simulated_balance, cost))
                ELSE NotPlaced
            ELSE Placed(SimulatedOrder(side, amount, po), FloatAdd(simulated_balance, cost))
        ELSE IF exok
             THEN [NotPlaced EXCEPT !.order = <<[SimulatedOrder(side, amount, po) EXCEPT !.id = 0]>>]
             ELSE NotPlaced

Range(s) == {s[i] : i \in DOMAIN s}

\* engine.py:180-181 and 200-201: the index of the next order of the side after
\* index i in the list the for loop walks, 0 when the loop is over
NextOrder(orders, i, side) ==
    LET later == {j \in DOMAIN orders : j > i /\ orders[j].side = side}
    IN  IF later = {} THEN 0 ELSE CHOOSE j \in later : \A k \in later : j <= k

\* engine.py:247, 251: an entry signal in the latest row
entry_signalled(row) == row.enter_long = 1 \/ row.enter_short = 1

\* the exit test as it would be if it did not look at the side of the position
exit_signalled_any_side(held, row) == row.exit_long = 1 \/ row.exit_short = 1

\* engine.py:257, 260: the exit signal of the held side in the latest row
exit_signalled(held, row) ==
    \/ held = "buy" /\ row.exit_long = 1
    \/ held = "sell" /\ row.exit_short = 1

\* execute_order from line 228 to the tests of lines 245-260: what the tick does
\* next. bar is the row that fetch_data and save_to_db added to the price table,
\* <<>> when fetch_data failed and returned None (save_to_db then stores nothing
\* and read_price reads the rows of earlier ticks); short tells that the table
\* read at line 231 has fewer than 20 rows, so that entry_signals raises at
\* line 234 and the except clause of line 264 ends the tick; exbal is the
\* exchange balance (live mode). amount is order_amount of line 242, which
\* only place_order is given.
execute_order(bar, short, exbal) ==
    LET df == IF short THEN <<>> ELSE IF bar = <<>> THEN latest ELSE bar
        row == Head(df)
        balance == get_balance(exbal)
        flat == open_position = <<>>
        held == Head(open_position).side
        branch == IF short \/ balance = <<>> THEN "return"
                  ELSE IF flat /\ entry_signalled(row) THEN "place"
                  ELSE IF ~flat /\ exit_signalled(held, row) THEN "close"
                  ELSE "return"
    IN  [df |-> df,
         failures |-> (IF bar = <<>> THEN {"fetch"} ELSE {})
                         \cup (IF short THEN {"strategy"} ELSE {}),
         branch |-> branch,
         side |-> IF short THEN ""
                  ELSE IF ~flat THEN held
                  ELSE IF row.enter_long = 1 THEN "buy" ELSE "sell",
         amount |-> IF branch = "place"
                    THEN calc_order(Head(balance), Float(FALSE, Head(row.close)),
                                    FloatOf(RiskPercentage))
                    ELSE Zero]

\* The fields of the engine that a tick may write, with the two tables of trades
Account ==
    [balance |-> simulated_balance, orders |-> simulated_orders,
     position |-> open_position, trades |-> closed_trades, realized |-> realized]

\* The locals of execute_order outside a tick. start is the Account as the tick
\* found it (history), side and amount the arguments of place_order or
\* close_orders, order what place_order returned or the order being closed,
\* price the close price handed to log_closed_trade, i the index of the order
\* being closed, closed the list closed_orders, open_orders the list
\* fetch_open_orders returned.
NoFrame ==
    [start |-> <<>>, side |-> "", amount |-> Zero, order |-> <<>>,
     price |-> 0, i |-> 0, closed |-> <<>>, open_orders |-> <<>>]

\* ----------------------------------------------------------------- Init
\* the rows an earlier run of the program may have left in the closed_trades
\* table of app.db: none, or one long trade of 1000 units entered at 9 and
\* closed at 10
StoredTrades ==
    {<<>>, <<ClosedTrade([side |-> "buy", amount |-> FloatOf(1000), price |-> 9], 10)>>}

\* TradingEngine.__init__ and TelegramBot.__init__. initialize_database creates
\* the closed_trades table only if it does not exist: the rows of earlier runs
\* stay. The import of strategy.py has read the price table and computed its
\* indicators (strategy.py:81-83), which raises on a table that is missing or
\* has fewer than 7 rows; latest is <<>> on a table of 7 to 19 rows, on which
\* entry_signals raises, and the last row with its signals on a longer one.
Constructed ==
    /\ dry_run \in BOOLEAN
    /\ is_running = FALSE
    /\ simulated_balance = FloatOf(InitialBalance)
    /\ simulated_orders = <<>>
    /\ open_position = <<>>
    /\ closed_trades \in StoredTrades
    /\ latest \in {<<>>} \cup {<<r>> : r \in LatestRows}
    /\ trading_thread = 0
    /\ lock = 0
    /\ hpc = [h \in Handlers |-> "idle"]
    /\ tpc = [t \in Threads |-> "unborn"]
    /\ frame = [t \in Threads |-> NoFrame]
    /\ reply = "none"
    /\ realized = <<>>
    /\ nticks = 0
    /\ afterStop = -1
    /\ price_seen = <<>>
    /\ failures = {}

NoCall == [fn |-> "none", arg |-> <<>>, result |-> <<>>]

Init == Constructed /\ call = NoCall

\* ------------------------------------------------- start_trading (engine.py)
\* line 269: the new thread sets the flag
StartTrading(t) ==
    /\ tpc[t] = "begin"
    /\ is_running' = TRUE
    /\ tpc' = [tpc EXCEPT ![t] = "test"]
    /\ UNCHANGED <<dry_run, trading_thread, lock, hpc, reply, afterStop>>
    /\ UNCHANGED engineVars

\* line 270: the while test, at thread start and after each sleep (the
\* history of the tick before is forgotten)
LoopTest(t) ==
    /\ tpc[t] = "test"
    /\ tpc' = [tpc EXCEPT ![t] = IF is_running THEN "exec" ELSE "done"]
    /\ afterStop' = IF is_running THEN afterStop ELSE -1
    /\ price_seen' = <<>>
    /\ failures' = {}
    /\ UNCHANGED <<dry_run, is_running, trading_thread, lock, hpc, reply>>
    /\ UNCHANGED <<simulated_balance, simulated_orders, open_position, closed_trades,
                   latest, realized, nticks, frame, call>>

\* what fetch_balance may give in live mode (<<>>: it raised or had no USDT)
ExchangeBalanceOutcomes ==
    IF dry_run THEN {<<>>} ELSE {<<>>} \cup {<<FloatOf(b)>> : b \in ExchangeBalances}

\* execute_order as it would be without the except clause of line 264: the error
\* of a failed tick leaves the loop and ends the thread
after_execute_order_reraises(failed) == IF failed THEN "done" ELSE "test"

\* Where the loop thread goes after execute_order: every Exception of the tick is
\* caught at line 264 and place_order and close_orders return None on a missing
\* price, so the call returns, the thread sleeps and tests the flag again.
after_execute_order(failed) == "test"

\* execute_order goes on at position pc with the locals fr
Continue(t, pc, fr) ==
    /\ tpc' = [tpc EXCEPT ![t] = pc]
    /\ frame' = [frame EXCEPT ![t] = fr]
    /\ UNCHANGED <<nticks, afterStop>>

\* execute_order returns, by a return or through the except clause of line 264,
\* and the thread sleeps (engine.py:272)
Return(t) ==
    /\ nticks' = nticks + 1
    /\ tpc' = [tpc EXCEPT ![t] = after_execute_order(
                    failures' # {} \/ price_seen' \in {<<PriceNone>>, <<PriceRaise>>})]
    /\ frame' = [frame EXCEPT ![t] = NoFrame]
    /\ afterStop' = IF afterStop = -1 THEN -1
                    ELSE IF afterStop < 2 THEN afterStop + 1 ELSE 2

\* line 271 and execute_order lines 228-260: the price table is brought up to
\* date, the balance read, the order sized and the branch chosen. rows are the
\* rows the market may add to the price table. A table of fewer than 20 rows
\* stays short or, with its 20th row, gives signals for the first time: on
\* fewer than 100 rows sma100 is NaN and the row carries no entry signal.
Loop(t, rows) ==
    /\ tpc[t] = "exec"
    /\ \E bar \in {<<>>} \cup {<<r>> : r \in rows}, short \in BOOLEAN,
          exbal \in ExchangeBalanceOutcomes :
          LET next == execute_order(bar, short, exbal)
          IN  /\ short => latest = <<>>
              /\ (~short /\ latest = <<>>) => (bar # <<>> /\ ~entry_signalled(Head(bar)))
              /\ latest' = next.df
              /\ price_seen' = <<>>
              /\ failures' = next.failures
              /\ IF next.branch = "return" THEN Return(t)
                 ELSE Continue(t, next.branch,
                               [NoFrame EXCEPT !.start = <<Account>>,
                                               !.side = next.side,
                                               !.amount = next.amount])
    /\ UNCHANGED <<simulated_balance, simulated_orders, open_position,
                   closed_trades, realized>>
    /\ UNCHANGED botVars

\* place_order lines 130-157 (dry run) or 130-169 (live), called at line 248 or 252
PlaceOrder(t) ==
    /\ tpc[t] = "place"
    /\ \E po \in PriceOutcomes :
       \E exok \in IF ~dry_run /\ po \in Prices THEN BOOLEAN ELSE {TRUE} :
          LET placed == place_order(frame[t].side, frame[t].amount, po, exok)
          IN  /\ price_seen' = <<po>>
              /\ failures' = failures \cup
                    (IF ~dry_run /\ po \in Prices /\ ~exok THEN {"port"} ELSE {})
              /\ simulated_balance' = placed.balance
              /\ IF placed.order = <<>> THEN Return(t)
                 ELSE Continue(t, IF dry_run THEN "append" ELSE "track",
                               [frame[t] EXCEPT !.order = placed.order])
    /\ UNCHANGED <<simulated_orders, open_position, closed_trades, latest, realized>>
    /\ UNCHANGED botVars

\* place_order lines 160-161
AppendOrder(t) ==
    /\ tpc[t] = "append"
    /\ simulated_orders' = Append(simulated_orders, Head(frame[t].order))
    /\ Continue(t, "track", frame[t])
    /\ UNCHANGED <<simulated_balance, open_position, closed_trades, latest,
                   realized, price_seen, failures>>
    /\ UNCHANGED botVars

\* execute_order lines 249-250 or 253-254
TrackPosition(t) ==
    /\ tpc[t] = "track"
    /\ open_position' = frame[t].order
    /\ UNCHANGED <<simulated_balance, simulated_orders, closed_trades, latest,
                   realized, price_seen, failures>>
    /\ Return(t)
    /\ UNCHANGED botVars

\* what fetch_open_orders (lines 198 and 216) may do in live mode, whatever
\* position the engine tracks: it raises, or it returns the open orders of the
\* exchange, which are none, the order of the tracked position, an order of
\* either side that the engine does not track, or both. In dry run the
\* exchange is not asked.
OpenOrderOutcomes ==
    IF dry_run THEN {[raised |-> FALSE, orders |-> <<>>]}
    ELSE LET untracked == {[id |-> 7, side |-> s, amount |-> FloatOf(10), price |-> 12] :
                              s \in {"buy", "sell"}}
         IN  {[raised |-> TRUE, orders |-> <<>>]}
             \cup {[raised |-> FALSE, orders |-> o] :
                      o \in {<<>>, open_position}
                            \cup {<<u>> : u \in untracked}
                            \cup {open_position \o <<u>> : u \in untracked}}

\* close_orders lines 173-179 (dry run) or 173-202 (live), called at line 258 or
\* 261. In live mode exch is what fetch_open_orders did and cancelled whether
\* cancel_order went through for the first open order of the side; an error of
\* either is caught at line 204. The order cancelled is the one
\* log_closed_trade is called with at line 203, at its own price.
CloseOrders(t) ==
    /\ tpc[t] = "close"
    /\ \E po \in PriceOutcomes :
       \E exch \in IF po \in Prices THEN OpenOrderOutcomes
                   ELSE {[raised |-> FALSE, orders |-> <<>>]} :
          LET j == NextOrder(exch.orders, 0, frame[t].side)
              order == exch.orders[j]
          IN  \E cancelled \in IF j # 0 THEN BOOLEAN ELSE {TRUE} :
                 /\ price_seen' = <<po>>
                 /\ failures' = failures \cup
                       (IF exch.raised \/ ~cancelled THEN {"port"} ELSE {})
                 /\ realized' = IF j # 0 /\ cancelled
                                THEN Append(realized, ClosedTrade(order, order.price))
                                ELSE realized
                 /\ IF po = PriceRaise THEN Return(t)
                    ELSE IF po = PriceNone THEN Continue(t, "clear", frame[t])
                    ELSE IF dry_run
                         THEN Continue(t, "credit", [frame[t] EXCEPT !.price = po])
                    ELSE IF j # 0 /\ cancelled
                         THEN Continue(t, "log", [frame[t] EXCEPT !.open_orders = exch.orders,
                                                                  !.i = j,
                                                                  !.order = <<order>>,
                                                                  !.price = order.price])
                         ELSE Continue(t, "clear", frame[t])
    /\ UNCHANGED <<simulated_balance, simulated_orders, open_position,
                   closed_trades, latest>>
    /\ UNCHANGED botVars

\* close_orders lines 181-188, the credit of the next order of the side, or,
\* when the loop is over, line 195
CreditOrder(t) ==
    LET j == NextOrder(simulated_orders, frame[t].i, frame[t].side)
        order == simulated_orders[j]
    IN  /\ tpc[t] = "credit"
        /\ IF j = 0
           THEN /\ simulated_orders' =
                      SelectSeq(simulated_orders, LAMBDA o : o \notin Range(frame[t].closed))
                /\ Continue(t, "clear", frame[t])
                /\ UNCHANGED <<simulated_balance, realized>>
           ELSE /\ simulated_balance' =
                      FloatAdd(simulated_balance,
                               FloatMul(FloatOf(frame[t].price), order.amount))
                /\ realized' = Append(realized, ClosedTrade(order, frame[t].price))
                /\ Continue(t, "log", [frame[t] EXCEPT !.order = <<order>>, !.i = j])
                /\ UNCHANGED simulated_orders
        /\ UNCHANGED <<open_position, closed_trades, latest, price_seen, failures>>
        /\ UNCHANGED botVars

\* log_closed_trade (lines 50-74), called at line 190 or 203, and what follows
\* up to the next call or the end of the loop: line 191 in dry run, lines
\* 199-202 in live mode, where cancelled is whether cancel_order went through
\* for the next open order of the side. db is what app.db did: "ok", "insert"
\* (the INSERT raised, caught at line 71) or "connect" (sqlite3.connect raised:
\* conn is unbound at line 74 and the error leaves log_closed_trade; in dry run
\* it leaves close_orders too, in live mode line 204 catches it and the loop is
\* over).
LogClosedTrade(t) ==
    LET j == IF dry_run THEN 0
             ELSE NextOrder(frame[t].open_orders, frame[t].i, frame[t].side)
        order == frame[t].open_orders[j]
    IN  /\ tpc[t] = "log"
        /\ \E db \in {"ok", "insert", "connect"} :
           \E cancelled \in IF db # "connect" /\ j # 0 THEN BOOLEAN ELSE {TRUE} :
              LET again == db # "connect" /\ j # 0 /\ cancelled
              IN  /\ closed_trades' =
                        IF db = "ok"
                        THEN Append(closed_trades,
                                    ClosedTrade(Head(frame[t].order), frame[t].price))
                        ELSE closed_trades
                  /\ failures' = failures \cup (IF db = "ok" THEN {} ELSE {"db"})
                                          \cup (IF cancelled THEN {} ELSE {"port"})
                  /\ price_seen' = price_seen
                  /\ realized' = IF again
                                 THEN Append(realized, ClosedTrade(order, order.price))
                                 ELSE realized
                  /\ IF dry_run
                     THEN IF db = "connect" THEN Return(t)
                          ELSE Continue(t, "credit",
                                        [frame[t] EXCEPT
                                            !.closed = Append(@, Head(frame[t].order))])
                     ELSE IF again
                          THEN Continue(t, "log", [frame[t] EXCEPT !.i = j,
                                                                   !.order = <<order>>,
                                                                   !.price = order.price])
                          ELSE Continue(t, "clear", frame[t])
        /\ UNCHANGED <<simulated_balance, simulated_orders, open_position, latest>>
        /\ UNCHANGED botVars

\* execute_order line 259 or 262
ClearPosition(t) ==
    /\ tpc[t] = "clear"
    /\ open_position' = <<>>
    /\ UNCHANGED <<simulated_balance, simulated_orders, closed_trades, latest,
                   realized, price_seen, failures>>
    /\ Return(t)
    /\ UNCHANGED botVars

\* ------------------------------------------------- the handlers (tele.py)
\* The Application built at tele.py:10 processes one update at a time: the
\* handler of an update starts when that of the update before has returned.
\* Every await of reply_text is a step of its own: the handler is suspended
\* there and the loop thread runs on.
Dispatched(h) == \A g \in Handlers : hpc[g] = "idle"

\* ------------------------------------------------------ runbot (tele.py)
NewThread == CHOOSE t \in Threads : tpc[t] = "unborn" /\ \A u \in Threads : tpc[u] = "unborn" => t <= u

\* runbot as it would be without the test of line 73
RunbotCheck_always_starts(h) ==
    /\ Dispatched(h)
    /\ lock = 0
    /\ \E t \in Threads : tpc[t] = "unborn"
    /\ lock' = h
    /\ hpc' = [hpc EXCEPT ![h] = "run_set"]
    /\ UNCHANGED <<dry_run, is_running, trading_thread, tpc, afterStop, reply>>
    /\ UNCHANGED engineVars

\* lines 72-73: the lock is taken and the flag tested
RunbotCheck(h) ==
    /\ Dispatched(h)
    /\ lock = 0
    /\ is_running \/ \E t \in Threads : tpc[t] = "unborn"
    /\ lock' = h
    /\ hpc' = [hpc EXCEPT ![h] = IF ~is_running THEN "run_set" ELSE "run_already"]
    /\ UNCHANGED <<dry_run, is_running, trading_thread, tpc, afterStop, reply>>
    /\ UNCHANGED engineVars

\* line 74
RunbotSet(h) ==
    /\ hpc[h] = "run_set"
    /\ is_running' = TRUE
    /\ hpc' = [hpc EXCEPT ![h] = "run_start"]
    /\ UNCHANGED <<dry_run, trading_thread, lock, tpc, reply, afterStop>>
    /\ UNCHANGED engineVars

\* lines 75-76: the thread is created and started
RunbotStart(h) ==
    /\ hpc[h] = "run_start"
    /\ trading_thread' = NewThread
    /\ tpc' = [tpc EXCEPT ![NewThread] = "begin"]
    /\ hpc' = [hpc EXCEPT ![h] = "run_reply"]
    /\ UNCHANGED <<dry_run, is_running, lock, reply, afterStop>>
    /\ UNCHANGED engineVars

\* lines 77-78: the reply is sent, the lock still held
RunbotReply(h) ==
    /\ hpc[h] = "run_reply"
    /\ reply' = "started"
    /\ hpc' = [hpc EXCEPT ![h] = "run_release"]
    /\ UNCHANGED <<dry_run, is_running, trading_thread, lock, tpc, afterStop>>
    /\ UNCHANGED engineVars

\* lines 79-81: the reply of the else branch is sent, the lock still held
RunbotAlready(h) ==
    /\ hpc[h] = "run_already"
    /\ reply' = "already running"
    /\ hpc' = [hpc EXCEPT ![h] = "run_release"]
    /\ UNCHANGED <<dry_run, is_running, trading_thread, lock, tpc, afterStop>>
    /\ UNCHANGED engineVars

\* the end of the with block of line 72, once the await has resumed
RunbotRelease(h) ==
    /\ hpc[h] = "run_release"
    /\ lock' = 0
    /\ hpc' = [hpc EXCEPT ![h] = "idle"]
    /\ UNCHANGED <<dry_run, is_running, trading_thread, tpc, reply, afterStop>>
    /\ UNCHANGED engineVars

\* ----------------------------------------------------- stopbot (tele.py)
\* lines 84-85: the lock is taken and the flag tested
StopbotCheck(h) ==
    /\ Dispatched(h)
    /\ lock = 0
    /\ lock' = h
    /\ hpc' = [hpc EXCEPT ![h] = IF is_running THEN "stop_set" ELSE "stop_not"]
    /\ UNCHANGED <<dry_run, is_running, trading_thread, tpc, afterStop, reply>>
    /\ UNCHANGED engineVars

\* line 86: stop_trading (engine.py:274-276)
StopbotSet(h) ==
    /\ hpc[h] = "stop_set"
    /\ is_running' = FALSE
    /\ afterStop' = 0
    /\ hpc' = [hpc EXCEPT ![h] = "stop_join"]
    /\ UNCHANGED <<dry_run, trading_thread, lock, tpc, reply>>
    /\ UNCHANGED engineVars

\* lines 87-88: join returns once the thread has ended
StopbotJoin(h) ==
    /\ hpc[h] = "stop_join"
    /\ trading_thread = 0 \/ tpc[trading_thread] = "done"
    /\ hpc' = [hpc EXCEPT ![h] = "stop_reply"]
    /\ UNCHANGED <<dry_run, is_running, trading_thread, lock, tpc, reply, afterStop>>
    /\ UNCHANGED engineVars

\* lines 89-90: the reply is sent, the lock still held
StopbotReply(h) ==
    /\ hpc[h] = "stop_reply"
    /\ reply' = "stopped"
    /\ hpc' = [hpc EXCEPT ![h] = "stop_release"]
    /\ UNCHANGED <<dry_run, is_running, trading_thread, lock, tpc, afterStop>>
    /\ UNCHANGED engineVars

\* lines 91-93: the reply of the else branch is sent, the lock still held
StopbotNot(h) ==
    /\ hpc[h] = "stop_not"
    /\ reply' = "not running"
    /\ hpc' = [hpc EXCEPT ![h] = "stop_release"]
    /\ UNCHANGED <<dry_run, is_running, trading_thread, lock, tpc, afterStop>>
    /\ UNCHANGED engineVars

\* the end of the with block of line 84, once the await has resumed
StopbotRelease(h) ==
    /\ hpc[h] = "stop_release"
    /\ lock' = 0
    /\ hpc' = [hpc EXCEPT ![h] = "idle"]
    /\ UNCHANGED <<dry_run, is_running, trading_thread, tpc, reply, afterStop>>
    /\ UNCHANGED engineVars

\* -------------------------------------------------- start, stop (tele.py)
\* /start (lines 27-31): the welcome message with the keyboard
start(h) ==
    /\ Dispatched(h)
    /\ reply' = "welcome"
    /\ UNCHANGED <<dry_run, is_running, trading_thread, lock, hpc, tpc, afterStop>>
    /\ UNCHANGED engineVars

\* /stop (lines 41-42): the message "Bot stopped!", and nothing is stopped
stop(h) ==
    /\ Dispatched(h)
    /\ reply' = "bot stopped"
    /\ UNCHANGED <<dry_run, is_running, trading_thread, lock, hpc, tpc, afterStop>>
    /\ UNCHANGED engineVars

\* The first step of a tick, in behaviours of at most MaxTicks ticks
Tick(t) == nticks < MaxTicks /\ Loop(t, LatestRows)

\* /runbot sent to an engine that is not running
FirstRunbot(h) == ~is_running /\ RunbotCheck(h)

\* the rows of a market that gives no signal for shorts
ControlRows == {r \in LatestRows : r.enter_short = 0 /\ r.exit_short = 0}

\* The first step of a tick, in behaviours of at most MaxControlTicks ticks
\* on such a market
ControlTick(t) == nticks < MaxControlTicks /\ Loop(t, ControlRows)

InitControl == Init /\ latest \in {<<>>} \cup {<<r>> : r \in ControlRows}

\* The engine under an operator who starts it once and lets it run, for as long
\* as the handler of that /runbot is suspended at the await of line 78 (the
\* steps after it are those of NextControl).
NextEngine ==
    \/ \E h \in Handlers : FirstRunbot(h)
    \/ \E h \in Handlers : RunbotSet(h)
    \/ \E h \in Handlers : RunbotStart(h)
    \/ \E t \in Threads : StartTrading(t)
    \/ \E t \in Threads : LoopTest(t)
    \/ \E t \in Threads : Tick(t)
    \/ \E t \in Threads : PlaceOrder(t)
    \/ \E t \in Threads : AppendOrder(t)
    \/ \E t \in Threads : TrackPosition(t)
    \/ \E t \in Threads : CloseOrders(t)
    \/ \E t \in Threads : CreditOrder(t)
    \/ \E t \in Threads : LogClosedTrade(t)
    \/ \E t \in Threads : ClearPosition(t)

Spec == Init /\ [][NextEngine]_vars

\* The engine under any sequence of runbot, stopbot, start and stop commands.
NextControl ==
    \/ \E h \in Handlers : RunbotCheck(h)
    \/ \E h \in Handlers : RunbotSet(h)
    \/ \E h \in Handlers : RunbotStart(h)
    \/ \E h \in Handlers : RunbotReply(h)
    \/ \E h \in Handlers : RunbotAlready(h)
    \/ \E h \in Handlers : RunbotRelease(h)
    \/ \E h \in Handlers : StopbotCheck(h)
    \/ \E h \in Handlers : StopbotSet(h)
    \/ \E h \in Handlers : StopbotJoin(h)
    \/ \E h \in Handlers : StopbotReply(h)
    \/ \E h \in Handlers : StopbotNot(h)
    \/ \E h \in Handlers : StopbotRelease(h)
    \/ \E h \in Handlers : start(h)
    \/ \E h \in Handlers : stop(h)
    \/ \E t \in Threads : StartTrading(t)
    \/ \E t \in Threads : LoopTest(t)
    \/ \E t \in Threads : ControlTick(t)
    \/ \E t \in Threads : PlaceOrder(t)
    \/ \E t \in Threads : AppendOrder(t)
    \/ \E t \in Threads : TrackPosition(t)
    \/ \E t \in Threads : CloseOrders(t)
    \/ \E t \in Threads : CreditOrder(t)
    \/ \E t \in Threads : LogClosedTrade(t)
    \/ \E t \in Threads : ClearPosition(t)

SpecControl == InitControl /\ [][NextControl]_vars

\* ------------------------------------------------ show_trade_stats (engine.py)
\* A row of SELECT * FROM closed_trades, in the column order of the CREATE TABLE
\* of lines 32-41: <<id, timestamp, symbol, side, amount, price, profit>>; the
\* REAL columns come back as floats.
TradeRow(id, price, profit) ==
    <<id, "t", "RUNE/USDT", "buy", FloatOf(10), FloatOf(price), FloatOf(profit)>>

TradePrices == {100, 120}       \* entry prices stored by log_closed_trade
TradeProfits == {-50, 0, 100}   \* profits stored by log_closed_trade

\* the tables of n rows
RECURSIVE TradeTables(_)
TradeTables(n) ==
    IF n = 0 THEN {<<>>}
    ELSE {Append(t, TradeRow(n, p, g)) :
            t \in TradeTables(n - 1), p \in TradePrices, g \in TradeProfits}

\* trade[k] of Python, whose tuples are indexed from 0
Column(trade, k) == trade[k + 1]

\* sum(trade[k] for trade in trades) from the running total acc: Python adds
\* from the left (the whole numbers of the tables here are added exactly)
RECURSIVE SumFrom(_, _, _)
SumFrom(acc, trades, k) ==
    IF trades = <<>> THEN acc
    ELSE SumFrom(FloatAdd(acc, Column(Head(trades), k)), Tail(trades), k)

SumColumn(trades, k) == SumFrom(FloatOf(0), trades, k)

\* The statistics of lines 89-96 over column k. raised: the division of line 96
\* raised ZeroDivisionError; profit_factor is <<>> for float('inf').
trade_stats(trades, k) ==
    LET total_profit == SumColumn(trades, k)
        total_trades == Len(trades)
        wins == SelectSeq(trades, LAMBDA t : ~FloatLeq(Column(t, k), FloatOf(0)))
        losses == SelectSeq(trades, LAMBDA t : FloatLeq(Column(t, k), FloatOf(0)))
        raised == losses # <<>> /\ SumColumn(losses, k) = FloatOf(0)
    IN  [raised |-> raised,
         total_trades |-> total_trades,
         total_profit |-> total_profit,
         win_rate |-> IF total_trades > 0
                      THEN FloatDiv(FloatOf(Len(wins)), FloatOf(total_trades))
                      ELSE FloatOf(0),
         average_win |-> IF wins # <<>>
                         THEN FloatDiv(SumColumn(wins, k), FloatOf(Len(wins)))
                         ELSE FloatOf(0),
         average_loss |-> IF losses # <<>>
                          THEN FloatDiv(SumColumn(losses, k), FloatOf(Len(losses)))
                          ELSE FloatOf(0),
         profit_factor |-> IF losses # <<>> /\ ~raised
                           THEN <<FloatDiv(SumColumn(wins, k),
                                           Float(FALSE, Magnitude(SumColumn(losses, k))))>>
                           ELSE <<>>]

\* show_trade_stats as it would be reading the profit column, trade[6]
show_trade_stats_profit_column(trades) == trade_stats(trades, 6)

\* show_trade_stats before the formatting of lines 97-105: every statistic is
\* computed from trade[5]
show_trade_stats(trades) == trade_stats(trades, 5)

\* --------------------------------------- the read-only commands (tele.py)
\* A command of the control surface calls one method of the engine and then
\* awaits reply_text with what it returned: call is the method with its
\* outcome, reply the message sent.
QueryOf(fn, arg, result) == [fn |-> fn, arg |-> arg, result |-> <<result>>]

\* /balance (tele.py:44-46) around get_balance (engine.py:107-120)
BalanceCall(h) ==
    /\ Dispatched(h)
    /\ \E exbal \in ExchangeBalanceOutcomes :
          call' = QueryOf("get_balance", <<exbal>>, get_balance(exbal))
    /\ hpc' = [hpc EXCEPT ![h] = "balance_reply"]
    /\ UNCHANGED <<dry_run, is_running, trading_thread, lock, tpc, frame, afterStop,
                   reply, simulated_balance, simulated_orders, open_position,
                   closed_trades, latest, realized, nticks, price_seen, failures>>

\* /balance (tele.py:47-50): the reply
BalanceReply(h) ==
    /\ hpc[h] = "balance_reply"
    /\ reply' = IF Head(call.result) # <<>> THEN "balance" ELSE "unable to fetch balance"
    /\ hpc' = [hpc EXCEPT ![h] = "idle"]
    /\ UNCHANGED <<dry_run, is_running, trading_thread, lock, tpc, frame, afterStop,
                   call, simulated_balance, simulated_orders, open_position,
                   closed_trades, latest, realized, nticks, price_seen, failures>>

\* show_open_positions up to its return: lines 210-213 (dry run), where the
\* orders are listed, or lines 215-223 (live), where the orders the exchange
\* returned are. text is what it returns: the listing, the sentence "none" or
\* the sentence "error"; "pending" before the second look at simulated_orders
\* of line 214.
show_open_positions(exch) ==
    IF dry_run THEN [text |-> "pending", orders |-> simulated_orders]
    ELSE IF exch.raised THEN [text |-> "error", orders |-> <<>>]
    ELSE IF exch.orders # <<>> THEN [text |-> "listing", orders |-> exch.orders]
    ELSE [text |-> "none", orders |-> <<>>]

\* /positions as it would be if show_open_positions consumed the orders it lists
PositionsList_consumes(h) ==
    /\ Dispatched(h)
    /\ \E exch \in OpenOrderOutcomes :
          call' = QueryOf("show_open_positions", <<exch>>, show_open_positions(exch))
    /\ hpc' = [hpc EXCEPT ![h] = IF dry_run THEN "positions_return" ELSE "positions_reply"]
    /\ simulated_orders' = <<>>
    /\ UNCHANGED <<dry_run, is_running, trading_thread, lock, tpc, frame, afterStop,
                   reply, simulated_balance, open_position,
                   closed_trades, latest, realized, nticks, price_seen, failures>>

\* /positions (tele.py:55-57) around show_open_positions (engine.py:208-223)
PositionsList(h) ==
    /\ Dispatched(h)
    /\ \E exch \in OpenOrderOutcomes :
          call' = QueryOf("show_open_positions", <<exch>>, show_open_positions(exch))
    /\ hpc' = [hpc EXCEPT ![h] = IF dry_run THEN "positions_return" ELSE "positions_reply"]
    /\ UNCHANGED <<dry_run, is_running, trading_thread, lock, tpc, frame, afterStop,
                   reply, simulated_balance, simulated_orders, open_position,
                   closed_trades, latest, realized, nticks, price_seen, failures>>

\* show_open_positions line 214: simulated_orders is looked at again
PositionsReturn(h) ==
    /\ hpc[h] = "positions_return"
    /\ call' = [call EXCEPT !.result =
                   <<[Head(@) EXCEPT !.text = IF simulated_orders # <<>> THEN "listing"
                                                                        ELSE "none"]>>]
    /\ hpc' = [hpc EXCEPT ![h] = "positions_reply"]
    /\ UNCHANGED <<dry_run, is_running, trading_thread, lock, tpc, frame, afterStop,
                   reply, simulated_balance, simulated_orders, open_position,
                   closed_trades, latest, realized, nticks, price_seen, failures>>

\* /positions (tele.py:58): the reply
PositionsReply(h) ==
    /\ hpc[h] = "positions_reply"
    /\ reply' = "positions"
    /\ hpc' = [hpc EXCEPT ![h] = "idle"]
    /\ UNCHANGED <<dry_run, is_running, trading_thread, lock, tpc, frame, afterStop,
                   call, simulated_balance, simulated_orders, open_position,
                   closed_trades, latest, realized, nticks, price_seen, failures>>

\* /status (tele.py:63-65), get_trade_status line 280: the test of open_position
StatusCheck(h) ==
    /\ Dispatched(h)
    /\ IF open_position # <<>>
       THEN /\ hpc' = [hpc EXCEPT ![h] = "status"]
            /\ UNCHANGED call
       ELSE /\ call' = QueryOf("get_trade_status", <<>>,
                               [raised |-> FALSE, text |-> "no position"])
            /\ hpc' = [hpc EXCEPT ![h] = "status_reply"]
    /\ UNCHANGED <<dry_run, is_running, trading_thread, lock, tpc, frame, afterStop,
                   reply, simulated_balance, simulated_orders, open_position,
                   closed_trades, latest, realized, nticks, price_seen, failures>>

\* the prices a status query may be given
StatusPrices == {PriceNone, PriceRaise, 10}

\* get_trade_status lines 281-301 on the price po: the position is read again
\* at lines 286-288, and a tick that closed it since line 280 leaves None there
get_trade_status(po) ==
    IF po = PriceRaise THEN [raised |-> TRUE, text |-> "error"]
    ELSE IF po = PriceNone THEN [raised |-> FALSE, text |-> "no price"]
    ELSE IF open_position = <<>> THEN [raised |-> TRUE, text |-> "error"]
    ELSE [raised |-> FALSE, text |-> "open position",
          order |-> Head(open_position), current_price |-> po,
          profit_loss |-> Profit(Head(open_position), po)]

\* get_trade_status after the test, once get_current_price has answered
StatusReport(h) ==
    /\ hpc[h] = "status"
    /\ \E po \in StatusPrices :
          call' = QueryOf("get_trade_status", <<po>>, get_trade_status(po))
    /\ hpc' = [hpc EXCEPT ![h] = "status_reply"]
    /\ UNCHANGED <<dry_run, is_running, trading_thread, lock, tpc, frame, afterStop,
                   reply, simulated_balance, simulated_orders, open_position,
                   closed_trades, latest, realized, nticks, price_seen, failures>>

\* /status (tele.py:66-69): the report, or the reply to an error that left
\* get_trade_status
StatusReply(h) ==
    /\ hpc[h] = "status_reply"
    /\ reply' = IF Head(call.result).raised THEN "status error" ELSE "status"
    /\ hpc' = [hpc EXCEPT ![h] = "idle"]
    /\ UNCHANGED <<dry_run, is_running, trading_thread, lock, tpc, frame, afterStop,
                   call, simulated_balance, simulated_orders, open_position,
                   closed_trades, latest, realized, nticks, price_seen, failures>>

\* the row of the closed_trades table that SELECT * gives for a logged trade
StoredRow(id, trade) ==
    <<id, "t", "RUNE/USDT", trade.side, trade.amount, FloatOf(trade.price), trade.profit>>

\* /stats (tele.py:33-35) around show_trade_stats (engine.py:76-105); db is what
\* the database did: "ok", "connect" (sqlite3.connect raised, and conn.close()
\* of line 87 then raises in its turn) or "select" (the SELECT raised)
StatsCall(h) ==
    /\ Dispatched(h)
    /\ \E db \in {"ok", "connect", "select"} :
          LET rows == [i \in DOMAIN closed_trades |-> StoredRow(i, closed_trades[i])]
          IN  call' = QueryOf("show_trade_stats", <<db>>,
                              IF db = "ok" THEN show_trade_stats(rows)
                                           ELSE [raised |-> db = "connect"])
    /\ hpc' = [hpc EXCEPT ![h] = "stats_reply"]
    /\ UNCHANGED <<dry_run, is_running, trading_thread, lock, tpc, frame, afterStop,
                   reply, simulated_balance, simulated_orders, open_position,
                   closed_trades, latest, realized, nticks, price_seen, failures>>

\* /stats (tele.py:36-39): the statistics, or the reply to an error that left
\* show_trade_stats
StatsReply(h) ==
    /\ hpc[h] = "stats_reply"
    /\ reply' = IF Head(call.result).raised THEN "stats error" ELSE "stats"
    /\ hpc' = [hpc EXCEPT ![h] = "idle"]
    /\ UNCHANGED <<dry_run, is_running, trading_thread, lock, tpc, frame, afterStop,
                   call, simulated_balance, simulated_orders, open_position,
                   closed_trades, latest, realized, nticks, price_seen, failures>>

\* The steps of a tick in behaviours of at most MaxQueryTicks ticks whose price
\* table, exchange and database all answer
QueryTick(t) == nticks < MaxQueryTicks /\ Loop(t, ControlRows) /\ failures' = {}

QueryPlaceOrder(t) == PlaceOrder(t) /\ failures' = {}

QueryCloseOrders(t) == CloseOrders(t) /\ failures' = {}

QueryLogClosedTrade(t) == LogClosedTrade(t) /\ failures' = {}

\* The engine, with its services up, under an operator who starts it and asks
\* for its state at any time.
NextQuery ==
    \/ \E h \in Handlers : FirstRunbot(h)
    \/ \E h \in Handlers : RunbotSet(h)
    \/ \E h \in Handlers : RunbotStart(h)
    \/ \E h \in Handlers : RunbotReply(h)
    \/ \E h \in Handlers : RunbotRelease(h)
    \/ \E t \in Threads : StartTrading(t)
    \/ \E t \in Threads : LoopTest(t)
    \/ \E t \in Threads : QueryTick(t)
    \/ \E t \in Threads : QueryPlaceOrder(t)
    \/ \E t \in Threads : AppendOrder(t)
    \/ \E t \in Threads : TrackPosition(t)
    \/ \E t \in Threads : QueryCloseOrders(t)
    \/ \E t \in Threads : CreditOrder(t)
    \/ \E t \in Threads : QueryLogClosedTrade(t)
    \/ \E t \in Threads : ClearPosition(t)
    \/ \E h \in Handlers : start(h)
    \/ \E h \in Handlers : stop(h)
    \/ \E h \in Handlers : BalanceCall(h)
    \/ \E h \in Handlers : BalanceReply(h)
    \/ \E h \in Handlers : PositionsList(h)
    \/ \E h \in Handlers : PositionsReturn(h)
    \/ \E h \in Handlers : PositionsReply(h)
    \/ \E h \in Handlers : StatusCheck(h)
    \/ \E h \in Handlers : StatusReport(h)
    \/ \E h \in Handlers : StatusReply(h)
    \/ \E h \in Handlers : StatsCall(h)
    \/ \E h \in Handlers : StatsReply(h)

SpecQuery == InitControl /\ [][NextQuery]_vars

\* ------------------------------------------------- calls of the pure functions
\* A call of one function on one input: call.fn names the function, call.arg is
\* the input, call.result is <<>> before the function has run and <<value>> after.
CallOf(fn, arg) == [fn |-> fn, arg |-> arg, result |-> <<>>]

Returned(fn) == call.fn = fn /\ call.result # <<>>

\* entry_signals then exit_signals on a row (strategy.py:51-79)
ApplySignals ==
    /\ call.fn = "signals" /\ call.result = <<>>
    /\ call' = [call EXCEPT !.result = <<LatestOf(call.arg)>>]
    /\ UNCHANGED <<dry_run, is_running, trading_thread, lock, hpc, tpc, frame, reply,
                   afterStop, simulated_balance, simulated_orders, open_position,
                   closed_trades, latest, realized, nticks, price_seen, failures>>

\* calc_indicators and the two signal functions on a history (strategy.py:29-79)
ApplyIndicators ==
    /\ call.fn = "indicators" /\ call.result = <<>>
    /\ call' = [call EXCEPT !.result =
                   <<Enriched(call.arg.closes, call.arg.hvi,
                              call.arg.ST_long, call.arg.ST_short)>>]
    /\ UNCHANGED <<dry_run, is_running, trading_thread, lock, hpc, tpc, frame, reply,
                   afterStop, simulated_balance, simulated_orders, open_position,
                   closed_trades, latest, realized, nticks, price_seen, failures>>

IndicatorInputs ==
    {CallOf("indicators", [closes |-> History(n, 1000, c2), hvi |-> hv,
                           ST_long |-> stl, ST_short |-> sts]) :
        n \in 0..MaxBars, c2 \in BarCloses, hv \in {NaN, Num(101)},
        stl \in {NaN, Num(400)}, sts \in {NaN, Num(3000)}}

\* calc_order (engine.py:122-126)
ApplyCalcOrder ==
    /\ call.fn = "calc_order" /\ call.result = <<>>
    /\ call' = [call EXCEPT !.result =
                   <<calc_order(FloatOf(call.arg.usdt_balance),
                                FloatOf(call.arg.current_price),
                                FloatOf(call.arg.risk_percentage))>>]
    /\ UNCHANGED <<dry_run, is_running, trading_thread, lock, hpc, tpc, frame, reply,
                   afterStop, simulated_balance, simulated_orders, open_position,
                   closed_trades, latest, realized, nticks, price_seen, failures>>

CalcOrderInputs ==
    {CallOf("calc_order", [usdt_balance |-> b, current_price |-> p,
                           risk_percentage |-> r]) :
        b \in {0, 100, 10000, 12345}, p \in {1, 3, 9, 10, 100, 145},
        r \in {0, 50, 90, 99, 100, 150}}

\* show_trade_stats (engine.py:76-105) on the rows the SELECT returned
ApplyStats ==
    /\ call.fn = "stats" /\ call.result = <<>>
    /\ call' = [call EXCEPT !.result = <<show_trade_stats(call.arg)>>]
    /\ UNCHANGED <<dry_run, is_running, trading_thread, lock, hpc, tpc, frame, reply,
                   afterStop, simulated_balance, simulated_orders, open_position,
                   closed_trades, latest, realized, nticks, price_seen, failures>>

StatsInputs ==
    {CallOf("stats", t) : t \in UNION {TradeTables(n) : n \in 0..MaxTrades}}

\* hvi (strategy.py:9-12) on a volume column
ApplyHvi ==
    /\ call.fn = "hvi" /\ call.result = <<>>
    /\ call' = [call EXCEPT !.result =
                   <<hvi([i \in DOMAIN call.arg |-> VolumeOf(call.arg[i])], HviPeriod)>>]
    /\ UNCHANGED <<dry_run, is_running, trading_thread, lock, hpc, tpc, frame, reply,
                   afterStop, simulated_balance, simulated_orders, open_position,
                   closed_trades, latest, realized, nticks, price_seen, failures>>

HviInputs ==
    {CallOf("hvi", VolumeHistory(n, at, peak, low, v)) :
        n \in 0..MaxVolumes, at \in {1, 2, HviPeriod + 1},
        peak \in {0, 69, 70}, low \in {0, 50}, v \in {0, 50, 69, 70}}

PureInputs ==
    {CallOf("signals", r) : r \in SignalRows}
    \cup IndicatorInputs
    \cup CalcOrderInputs
    \cup StatsInputs
    \cup HviInputs

\* the engine as constructed in dry run over a price table whose last row
\* gives no signal, and one call to make
InitPure ==
    /\ Constructed
    /\ dry_run
    /\ latest # <<>>
    /\ \A s \in {"enter_long", "enter_short", "exit_long", "exit_short"} : Head(latest)[s] = 0
    /\ call \in PureInputs

NextPure ==
    \/ ApplySignals
    \/ ApplyIndicators
    \/ ApplyCalcOrder
    \/ ApplyStats
    \/ ApplyHvi

\* The pure functions of the strategy and of the engine, each applied to one input.
SpecPure == InitPure /\ [][NextPure]_vars

\* ================================================================ claims
\* sum of the profits of the trades, added from the left
RECURSIVE SumProfitFrom(_, _)
SumProfitFrom(acc, trades) ==
    IF trades = <<>> THEN acc
    ELSE SumProfitFrom(FloatAdd(acc, Head(trades).profit), Tail(trades))

SumProfit(trades) == SumProfitFrom(Zero, trades)

\* the positions of a thread inside execute_order, after its first step
InTick == {"place", "append", "track", "close", "credit", "log", "clear"}

\* no execute_order is under way
BetweenTicks == \A t \in Threads : tpc[t] \notin InTick

\* this step is the last one of an execute_order of thread t
Ended(t) == nticks' = nticks + 1 /\ tpc'[t] # tpc[t]

\* the account as the execute_order that thread t is in, or is about to start,
\* found it
StartOf(t) == IF frame[t].start = <<>> THEN Account ELSE Head(frame[t].start)

\* the tick that ends asked for the current price and got a price
GotPrice == price_seen' # <<>> /\ Head(price_seen') \in Prices

\* the tick that ends asked for the current price and got none
NoPrice == price_seen' \in {<<PriceNone>>, <<PriceRaise>>}

\* order_amount of the tick that thread t ends (engine.py:242)
OrderAmount(t) ==
    calc_order(StartOf(t).balance, Float(FALSE, Head(Head(latest').close)),
               FloatOf(RiskPercentage))

\* cost of line 147 for that amount at the price the tick got
OrderCost(t) == FloatMul(FloatOf(Head(price_seen')), OrderAmount(t))

Alive == {t \in Threads : tpc[t] \notin {"unborn", "done"}}

\* C1: at most one open position/order exists at any time: the engine never
\* holds more than one open order, so the open-order list never has two entries.
C1_AtMostOneOpenOrder ==
    Len(open_position) <= 1 /\ Len(simulated_orders) <= 1

\* C2: in simulation the balance is never negative, in any state the ticks
\* go through.
C2_BalanceNeverNegative ==
    dry_run => ~simulated_balance.neg

\* a long entry that cost the whole balance has been accepted
C2_Witness ==
    /\ dry_run
    /\ open_position # <<>>
    /\ Head(open_position).side = "buy"
    /\ Head(open_position).price = 10
    /\ simulated_balance = Zero

\* C3: a tick whose exit signal matches the position but whose close fails (no
\* current price, or the exchange fails) leaves the position open and the
\* balance and the closed trades as they were.
C3_FailedExitKeepsPosition ==
    [][\A t \in Threads :
          (/\ Ended(t)
           /\ StartOf(t).position # <<>>
           /\ exit_signalled(Head(StartOf(t).position).side, Head(latest'))
           /\ NoPrice \/ "port" \in failures')
          => /\ open_position' = StartOf(t).position
             /\ simulated_balance' = StartOf(t).balance
             /\ closed_trades' = StartOf(t).trades
             /\ realized' = StartOf(t).realized]_vars

\* C4: in simulation, whenever the engine is flat between ticks with no order
\* left open, the balance is the initial balance plus the profits of the trades
\* closed so far.
C4_FlatBalanceIsInitialPlusProfits ==
    (dry_run /\ BetweenTicks /\ open_position = <<>> /\ simulated_orders = <<>>)
        => simulated_balance = FloatAdd(FloatOf(InitialBalance), SumProfit(realized))

\* C5: in simulation a long entry whose cost exceeds the balance is rejected:
\* no position, balance unchanged, no order added.
C5_OverdrawingEntryRejected ==
    [][\A t \in Threads :
          (/\ Ended(t) /\ dry_run /\ GotPrice
           /\ StartOf(t).position = <<>>
           /\ Head(latest').enter_long = 1
           /\ ~FloatGeq(StartOf(t).balance, OrderCost(t)))
          => /\ open_position' = <<>>
             /\ simulated_balance' = StartOf(t).balance
             /\ simulated_orders' = StartOf(t).orders]_vars

\* the first entry, a long at price 12 sized on a close of 9, has been rejected
C5_Witness ==
    /\ dry_run
    /\ nticks = 1
    /\ price_seen = <<12>>
    /\ Head(latest).enter_long = 1
    /\ open_position = <<>>
    /\ simulated_orders = <<>>
    /\ simulated_balance = FloatOf(InitialBalance)

\* C6: in simulation a flat engine with enter_long, a price P and a balance of
\* at least P * amount opens a long position of that amount at entry price P
\* and the balance goes down by exactly P * amount.
C6_LongEntry ==
    [][\A t \in Threads :
          (/\ Ended(t) /\ dry_run /\ GotPrice
           /\ StartOf(t).position = <<>>
           /\ Head(latest').enter_long = 1
           /\ FloatGeq(StartOf(t).balance, OrderCost(t)))
          => /\ Len(open_position') = 1
             /\ Head(open_position').side = "buy"
             /\ Head(open_position').amount = OrderAmount(t)
             /\ Head(open_position').price = Head(price_seen')
             /\ simulated_balance' = FloatSub(StartOf(t).balance, OrderCost(t))]_vars

\* the first entry, a long of 1000 at price 9, has been accepted
C6_Witness ==
    /\ dry_run
    /\ nticks = 1
    /\ price_seen = <<9>>
    /\ Len(open_position) = 1
    /\ Head(open_position).side = "buy"
    /\ Head(open_position).amount = FloatOf(1000)
    /\ simulated_balance = FloatOf(1000)

\* C7: in simulation a long position (E, a) with exit_long and a price P closes
\* as one trade of profit (P - E) * a, the balance goes up by exactly P * a, and
\* the engine is flat with no open order left.
C7_LongExit ==
    [][\A t \in Threads :
          (/\ Ended(t) /\ dry_run /\ GotPrice
           /\ StartOf(t).position # <<>>
           /\ Head(StartOf(t).position).side = "buy"
           /\ Head(latest').exit_long = 1)
          => LET P == Head(price_seen')
                 E == Head(StartOf(t).position).price
                 a == Head(StartOf(t).position).amount
             IN  /\ realized' = Append(StartOf(t).realized,
                       [side |-> "buy", amount |-> a, price |-> E,
                        profit |-> FloatMul(FloatOf(P - E), a)])
                 /\ simulated_balance'
                       = FloatAdd(StartOf(t).balance, FloatMul(FloatOf(P), a))
                 /\ open_position' = <<>>
                 /\ simulated_orders' = <<>>]_vars

\* C8: a tick with a position open and no exit signal for the held side leaves
\* the position, the balance, the open orders and the closed trades unchanged,
\* whatever entry signal or opposite exit signal the row carries.
C8_HoldChangesNothing ==
    [][\A t \in Threads :
          (/\ Ended(t)
           /\ StartOf(t).position # <<>>
           /\ ~(Head(StartOf(t).position).side = "buy" /\ Head(latest').exit_long = 1)
           /\ ~(Head(StartOf(t).position).side = "sell" /\ Head(latest').exit_short = 1))
          => /\ Account' = StartOf(t)
             /\ price_seen' = <<>>]_vars

\* a long position has been held through a tick whose row said enter_short
C8_Witness ==
    /\ nticks >= 2
    /\ BetweenTicks
    /\ open_position # <<>>
    /\ Head(open_position).side = "buy"
    /\ price_seen = <<>>
    /\ Head(latest).enter_short = 1
    /\ Head(latest).exit_long = 0

\* C9: after stop_trading the loop completes at most one more tick.
C9_AtMostOneTickAfterStop ==
    afterStop <= 1

\* C10: at most one loop thread is alive; a runbot on a running engine starts
\* nothing and answers "already running"; a stopbot on a stopped engine changes
\* nothing and answers "not running".
C10_StartIdempotent ==
    [][/\ Cardinality({t \in Threads : tpc'[t] \notin {"unborn", "done"}}) <= 1
       /\ \A h \in Handlers :
            (is_running /\ hpc[h] = "idle")
               => hpc'[h] \in {"idle", "stop_set", "run_already"}
       /\ \A h \in Handlers :
            (~is_running /\ hpc[h] = "idle")
               => hpc'[h] \in {"idle", "run_set", "stop_not"}
       /\ \A h \in Handlers :
            (hpc[h] = "run_already" /\ hpc'[h] # "run_already")
               => /\ is_running /\ Alive # {}
                  /\ reply' = "already running" /\ hpc'[h] = "run_release"
                  /\ UNCHANGED <<is_running, tpc, trading_thread, lock>>
                  /\ UNCHANGED engineVars
       /\ \A h \in Handlers :
            (hpc[h] = "stop_not" /\ hpc'[h] # "stop_not")
               => /\ ~is_running /\ Alive = {}
                  /\ reply' = "not running" /\ hpc'[h] = "stop_release"
                  /\ UNCHANGED <<is_running, tpc, trading_thread, lock>>
                  /\ UNCHANGED engineVars
       /\ \A h \in Handlers :
            (hpc[h] \in {"run_release", "stop_release"} /\ hpc'[h] # hpc[h])
               => /\ hpc'[h] = "idle"
                  /\ UNCHANGED <<is_running, tpc, trading_thread, reply>>
                  /\ UNCHANGED engineVars
       /\ (reply' # reply /\ reply' = "already running")
            => \E h \in Handlers : hpc[h] = "run_already"
       /\ (reply' # reply /\ reply' = "not running")
            => \E h \in Handlers : hpc[h] = "stop_not"]_vars

\* a runbot has been answered "already running" while the loop thread was
\* inside a tick
C10_Witness ==
    /\ reply = "already running"
    /\ is_running
    /\ \E t \in Threads : tpc[t] \in InTick
    /\ \A h \in Handlers : hpc[h] = "idle"
    /\ Cardinality(Alive) = 1

\* C11: whatever fails inside a tick, the thread that ran the tick goes back to
\* the test of the running flag, and a loop thread ends only at that test, when
\* the flag is cleared.
C11_OnlyStopEndsLoop ==
    [][/\ \A t \in Threads : Ended(t) => tpc'[t] = "test"
       /\ \A t \in Threads :
            (tpc[t] # "done" /\ tpc'[t] = "done")
               => (tpc[t] = "test" /\ ~is_running /\ afterStop >= 0)]_vars

\* after an exit whose trade could not be stored the loop thread, its flag
\* still set, is back at the test of the flag
C11_Witness ==
    /\ is_running
    /\ nticks = 2
    /\ "db" \in failures
    /\ \E t \in Threads : tpc[t] = "test"

\* C12: a tick in which fetch_data supplies no bars makes no transition: no
\* price is asked for, and position, balance, open orders and closed trades are
\* as before the tick.
C12_FetchFailureAbortsTick ==
    [][\A t \in Threads :
          (Ended(t) /\ "fetch" \in failures')
          => /\ price_seen' = <<>>
             /\ Account' = StartOf(t)]_vars

\* C13: an entry attempt that gets no price, or whose order the exchange does not
\* place, leaves the engine flat with the balance, the open orders and the closed
\* trades unchanged; the tick ends with that attempt.
C13_FailedEntryStaysFlat ==
    [][\A t \in Threads :
          (/\ Ended(t)
           /\ StartOf(t).position = <<>>
           /\ latest' # <<>>
           /\ entry_signalled(Head(latest'))
           /\ NoPrice \/ "port" \in failures')
          => /\ tpc[t] = "place"
             /\ Account' = StartOf(t)]_vars

\* the exchange has just refused the order of a live entry that had a price
C13_Witness ==
    /\ ~dry_run
    /\ nticks = 1
    /\ "port" \in failures
    /\ price_seen # <<>> /\ Head(price_seen) \in Prices
    /\ entry_signalled(Head(latest))
    /\ open_position = <<>>
    /\ \E t \in Threads : tpc[t] = "test"

\* C14 as stated: on every indicator row, nulls included, exit_long and
\* exit_short are not both true.
C14_ExitsNeverBoth ==
    Returned("signals")
       => ~(Head(call.result).exit_long = 1 /\ Head(call.result).exit_short = 1)

\* C14 as amended: exit_long and exit_short are both true exactly on the rows
\* with trend_short_band < close < trend_long_band, so never when a band or the
\* close is null or when trend_long_band <= trend_short_band.
C14_ExitsBothOnlyBetweenBands ==
    Returned("signals")
       => LET r == call.arg
              sig == Head(call.result)
          IN  (sig.exit_long = 1 /\ sig.exit_short = 1)
                 <=> (/\ r.close # NaN /\ r.ST_long # NaN /\ r.ST_short # NaN
                      /\ Lt(r.ST_short, r.close) /\ Lt(r.close, r.ST_long))

\* a row below its long band with the short band null gives exit_long alone
C14_Witness ==
    /\ Returned("signals")
    /\ call.arg.ST_long = Num(10) /\ call.arg.ST_short = NaN /\ call.arg.close = Num(9)
    /\ Head(call.result).exit_long = 1
    /\ Head(call.result).exit_short = 0

\* C15: on every indicator row, nulls included, enter_long and enter_short are
\* not both true.
C15_EntriesNeverBoth ==
    Returned("signals")
       => ~(Head(call.result).enter_long = 1 /\ Head(call.result).enter_short = 1)

\* a row between its bands (long band below, short band above) with the close
\* above both averages gives enter_long alone
C15_Witness ==
    /\ Returned("signals")
    /\ call.arg.ST_long = Num(8) /\ call.arg.ST_short = Num(10) /\ call.arg.close = Num(9)
    /\ call.arg.sma20 = Num(8) /\ call.arg.sma100 = Num(8) /\ call.arg.hvi = Num(101)
    /\ Head(call.result).enter_long = 1
    /\ Head(call.result).enter_short = 0

\* C16: on a history of fewer than LongLookback bars sma100 is null on every row
\* and no row has enter_long or enter_short, so the row execute_order reads
\* (the last one) carries no entry signal; on the histories too short for the
\* signals to be computed there is no row to read.
C16_ShortHistoryNoEntry ==
    (Returned("indicators") /\ Len(call.arg.closes) < LongLookback)
       => LET out == Head(call.result)
          IN  /\ Len(out.sma100) = Len(call.arg.closes)
              /\ \A i \in DOMAIN out.sma100 : out.sma100[i] = NaN
              /\ \A i \in DOMAIN out.rows :
                    /\ out.rows[i].sma100 = NaN
                    /\ out.rows[i].latest.enter_long = 0
                    /\ out.rows[i].latest.enter_short = 0
              /\ out.rows # <<>> => ~entry_signalled(out.rows[Len(out.rows)].latest)

\* 99 bars, the last one closing above its 20-bar average and its long band
\* with a volume spike: every test of enter_long but the one on sma100 passes
C16_Witness ==
    /\ Returned("indicators")
    /\ Len(call.arg.closes) = LongLookback - 1
    /\ call.arg.closes[LongLookback - 1] = 2000
    /\ call.arg.hvi = Num(101) /\ call.arg.ST_long = Num(400)
    /\ Head(call.result).raised = ""
    /\ Head(call.result).rows[LongLookback - 1].sma20 = Num(1050)
    /\ Head(call.result).rows[LongLookback - 1].sma100 = NaN
    /\ Head(call.result).rows[LongLookback - 1].latest.enter_long = 0

\* the amount returned is (balance * risk / 100) / price up to the rounding of
\* three floating-point operations, and it is 90 for 10000, 100, 90
CalcOrderFormula ==
    LET b == call.arg.usdt_balance
        p == call.arg.current_price
        r == call.arg.risk_percentage
        amount == Head(call.result)
    IN  /\ ~amount.neg
        /\ DoubleWithin(Magnitude(amount), b * r, 100 * p, 50)
        /\ (b = 10000 /\ p = 100 /\ r = 90) => amount = FloatOf(90)

\* amount * price as place_order computes it (engine.py:147)
CalcOrderCost == FloatMul(FloatOf(call.arg.current_price), Head(call.result))

\* C17 as stated: calc_order returns (balance * risk_percentage / 100) / price,
\* and amount * price does not exceed the balance when risk_percentage <= 100.
C17_SizingNeverOverBalance ==
    Returned("calc_order")
       => /\ CalcOrderFormula
          /\ call.arg.risk_percentage <= 100
                => FloatLeq(CalcOrderCost, FloatOf(call.arg.usdt_balance))

\* C17 as amended: calc_order returns (balance * risk_percentage / 100) / price
\* up to floating-point rounding; amount * price does not exceed the balance
\* when risk_percentage <= 99, and when risk_percentage <= 100 it is within
\* rounding of balance * risk_percentage / 100.
C17_SizingWithinRounding ==
    Returned("calc_order")
       => /\ CalcOrderFormula
          /\ call.arg.risk_percentage <= 99
                => FloatLeq(CalcOrderCost, FloatOf(call.arg.usdt_balance))
          /\ call.arg.risk_percentage <= 100
                => DoubleWithin(Magnitude(CalcOrderCost),
                       call.arg.usdt_balance * call.arg.risk_percentage, 100, 49)

\* Scenario A has been computed, and its cost 9000 is below the balance
C17_Witness ==
    /\ Returned("calc_order")
    /\ call.arg = [usdt_balance |-> 10000, current_price |-> 100, risk_percentage |-> 90]
    /\ Head(call.result) = FloatOf(90)
    /\ CalcOrderCost = FloatOf(9000)

\* the profits of a table's rows
ProfitsOf(trades) == [i \in DOMAIN trades |-> trades[i][7]]

\* sum of a sequence of floats, added from the left
RECURSIVE SumSeqFrom(_, _)
SumSeqFrom(acc, xs) ==
    IF xs = <<>> THEN acc ELSE SumSeqFrom(FloatAdd(acc, Head(xs)), Tail(xs))

SumSeq(xs) == SumSeqFrom(Zero, xs)

\* C18: the statistics of a table are total_trades = number of rows,
\* total_profit = sum of the profits, win_rate = wins / total (0 without
\* trades) and, when there are losing trades, profit_factor = sum of the
\* winning profits / abs(sum of the losing profits).
C18_StatisticsOfProfits ==
    Returned("stats")
       => LET profits == ProfitsOf(call.arg)
              wins == SelectSeq(profits, LAMBDA g : ~FloatLeq(g, Zero))
              losses == SelectSeq(profits, LAMBDA g : g.neg)
              stats == Head(call.result)
          IN  /\ ~stats.raised
              /\ stats.total_trades = Len(profits)
              /\ stats.total_profit = SumSeq(profits)
              /\ stats.win_rate = IF profits = <<>> THEN Zero
                                  ELSE FloatDiv(FloatOf(Len(wins)), FloatOf(Len(profits)))
              /\ losses # <<>>
                    => stats.profit_factor
                          = <<FloatDiv(SumSeq(wins), Float(FALSE, Magnitude(SumSeq(losses))))>>

\* C19: show_trade_stats yields statistics for every table, and profit_factor
\* is infinite whenever no row has a negative profit, rows of profit 0 included.
C19_StatisticsAlwaysYielded ==
    Returned("stats")
       => /\ ~Head(call.result).raised
          /\ (\A i \in DOMAIN call.arg : ~call.arg[i][7].neg)
                => Head(call.result).profit_factor = <<>>

\* statistics were yielded for a table holding a winning trade and a trade of
\* profit 0, with an infinite profit factor
C19_Witness ==
    /\ Returned("stats")
    /\ Len(call.arg) = 2
    /\ call.arg[1][7] = FloatOf(100) /\ call.arg[2][7] = Zero
    /\ ~Head(call.result).raised
    /\ Head(call.result).profit_factor = <<>>

\* C20: an exit whose trade could not be written to app.db still closes the
\* position: the engine is flat, the balance is credited once with P * amount,
\* the position's order has left the open orders, and the loop thread goes on.
C20_UnrecordedTradeStillCloses ==
    [][\A t \in Threads :
          (Ended(t) /\ "db" \in failures')
          => LET held == Head(StartOf(t).position)
                 P == Head(price_seen')
             IN  /\ open_position' = <<>>
                 /\ dry_run
                       => /\ simulated_balance'
                                = FloatAdd(StartOf(t).balance,
                                           FloatMul(FloatOf(P), held.amount))
                          /\ held \notin Range(simulated_orders')
                 /\ tpc'[t] = "test"]_vars

\* C23: in simulation, between ticks, the tracked position and the open orders
\* agree: the position is empty exactly when simulated_orders is empty, and an
\* open position is the one and only order of simulated_orders.
C23_PositionAgreesWithOrders ==
    (dry_run /\ BetweenTicks)
       => /\ (open_position = <<>>) <=> (simulated_orders = <<>>)
          /\ open_position # <<>> => simulated_orders = open_position

\* C24: a tick adds exactly one closed trade exactly when it takes the engine
\* from an open position to flat, which keeps their number at the accepted
\* entries minus the open position; that tick credits the balance once with
\* P * amount; the trades recorded before stay as they were at every step, in
\* memory and in the table.
C24_OneTradePerExit ==
    [][/\ Len(realized') >= Len(realized)
       /\ SubSeq(realized', 1, Len(realized)) = realized
       /\ Len(closed_trades') >= Len(closed_trades)
       /\ SubSeq(closed_trades', 1, Len(closed_trades)) = closed_trades
       /\ \A t \in Threads :
            Ended(t)
               => LET closing == StartOf(t).position # <<>> /\ open_position' = <<>>
                  IN  /\ Len(realized')
                            = Len(StartOf(t).realized) + (IF closing THEN 1 ELSE 0)
                      /\ (closing /\ dry_run)
                            => simulated_balance'
                                 = FloatAdd(StartOf(t).balance,
                                       FloatMul(FloatOf(Head(price_seen')),
                                                Head(StartOf(t).position).amount))]_vars

\* the rows before row i that the claim's maximum ranges over
Preceding(i) == (i - HviPeriod)..(i - 1)

\* the hvi column is null on the first HviPeriod rows and on row i after them
\* it is volume[i] * 100 / max(volume[i-10 .. i-1]), row i excluded
HviFormula ==
    LET vols == [i \in DOMAIN call.arg |-> VolumeOf(call.arg[i])]
        col == Head(call.result)
    IN  \A i \in DOMAIN col :
            IF i <= HviPeriod THEN col[i] = <<>>
            ELSE \E j \in Preceding(i) :
                    /\ \A k \in Preceding(i) : call.arg[k] <= call.arg[j]
                    /\ col[i] = HviQuotient(vols[i], <<vols[j]>>)

\* C22 as stated: the hvi formula, and hvi > 100 on row i exactly when row i's
\* volume is strictly greater than each of the 10 preceding volumes.
C22_HviAboveIffStrictlyGreater ==
    Returned("hvi")
       => /\ HviFormula
          /\ \A i \in DOMAIN call.arg :
                i > HviPeriod
                   => (Gt(Head(call.result)[i], Num(HviThreshold))
                          <=> \A k \in Preceding(i) : call.arg[k] < call.arg[i])

\* C22 as amended: the hvi formula; hvi > 100 on row i only when row i's volume
\* is at least each of the 10 preceding volumes, and whenever it is greater
\* than each of them by a hundredth or more.
C22_HviAboveWithinRounding ==
    Returned("hvi")
       => /\ HviFormula
          /\ \A i \in DOMAIN call.arg :
                i > HviPeriod
                   => /\ Gt(Head(call.result)[i], Num(HviThreshold))
                            => \A k \in Preceding(i) : call.arg[k] <= call.arg[i]
                      /\ (\A k \in Preceding(i) : call.arg[k] < call.arg[i])
                            => Gt(Head(call.result)[i], Num(HviThreshold))

\* twelve rows whose peak of 0.70 on row 1 is outside the window of row 12:
\* the volume 0.69 of row 12 is above the ten volumes before it
C22_Witness ==
    /\ Returned("hvi")
    /\ Len(call.arg) = 12
    /\ call.arg[1] = 70 /\ call.arg[2] = 50 /\ call.arg[12] = 69
    /\ Head(call.result)[HviPeriod] = <<>>
    /\ Head(call.result)[11] # <<>> /\ ~Gt(Head(call.result)[11], Num(HviThreshold))
    /\ Gt(Head(call.result)[12], Num(HviThreshold))

\* the positions of a handler inside a read-only command
QueryPcs == {"balance_reply", "positions_return", "positions_reply",
             "status", "status_reply", "stats_reply"}

\* this step is a step of a read-only command
IsQuery == \E h \in Handlers :
              hpc'[h] # hpc[h] /\ (hpc[h] \in QueryPcs \/ hpc'[h] \in QueryPcs)

\* this step is a step of a tick after its first
IsTickStep == \E t \in Threads :
                 tpc[t] \in InTick /\ (tpc'[t] # tpc[t] \/ frame'[t] # frame[t])

\* C21: get_balance, show_open_positions, get_trade_status and show_trade_stats,
\* asked between ticks or while a tick is under way, leave the balance, the open
\* position, the open-order list and the closed-trade history unchanged; only
\* the steps of a tick write them.
C21_QueriesWriteNothing ==
    [][(IsQuery \/ ~IsTickStep)
          => UNCHANGED <<simulated_balance, simulated_orders, open_position,
                         closed_trades>>]_vars

\* a status report on the position has been made while the tick that closes it
\* had credited the balance and not yet cleared the position
C21_Witness ==
    /\ call.fn = "get_trade_status"
    /\ Head(call.result).text = "open position"
    /\ \E h \in Handlers : hpc[h] = "status_reply"
    /\ \E t \in Threads : tpc[t] = "log"
    /\ open_position # <<>>
    /\ Head(call.result).order = Head(open_position)
    /\ dry_run /\ simulated_orders = open_position

====
